---- MODULE Spec2Model ----
(***************************************************************************)
(* hicrep: the command line entry point (src/hicrep/__init__.py, main),    *)
(* the per-chromosome driver hicrepSCC and the diagonal correlator         *)
(* sccByDiag (src/hicrep/hicrep.py).                                       *)
(*                                                                         *)
(* Spec    : one invocation, from the command line or by a direct call of  *)
(*           hicrepSCC, as a state machine over the line ranges of the     *)
(*           two functions.  Contact matrices are kept as their            *)
(*           per-offset totals, which is all the driver looks at.          *)
(* SpecScc : sccByDiag applied to small concrete matrices, in exact        *)
(*           arithmetic.                                                   *)
(***************************************************************************)
EXTENDS Integers, Sequences, FiniteSets, TLC

\* Python's None, for a name that holds a string or is not yet bound
None == "None"

\* An optional value (a parameter that may be None, a result not yet there):
\* Nothing for None, Some(x) for x
Nothing == <<>>

Some(x) == <<x>>

The(o) == o[1]

----------------------------------------------------------------------------
\* Bounds of the driver model

\* longest list of names given as chrNames / --chrNames / --excludeChr
MaxNames == 2
\* largest number of bins of one chromosome
MaxBins == 2
\* largest total of contacts on one diagonal offset of a submatrix
MaxCount == 1

----------------------------------------------------------------------------
\* Generic helpers

Range(s) == {s[i] : i \in DOMAIN s}

Min(a, b) == IF a < b THEN a ELSE b

RECURSIVE SumSeq(_)
SumSeq(s) == IF s = <<>> THEN 0 ELSE Head(s) + SumSeq(Tail(s))

SeqsUpTo(S, n) == UNION {[1..k -> S] : k \in 0..n}

\* the elements of s that satisfy Keep, in the order of s
RECURSIVE SelectInOrder(_, _)
SelectInOrder(s, keep) ==
    IF s = <<>> THEN <<>>
    ELSE IF Head(s) \in keep THEN <<Head(s)>> \o SelectInOrder(Tail(s), keep)
         ELSE SelectInOrder(Tail(s), keep)

\* the keys of dict.fromkeys(s): the names of s, each at its first occurrence
RECURSIVE FromKeys(_)
FromKeys(s) ==
    IF s = <<>> THEN <<>>
    ELSE LET init == FromKeys(SubSeq(s, 1, Len(s) - 1))
             last == s[Len(s)]
         IN  IF last \in Range(init) THEN init ELSE Append(init, last)

\* insertion of x into the sorted sequence s
RECURSIVE Insert(_, _)
Insert(x, s) ==
    IF s = <<>> THEN <<x>>
    ELSE IF x <= Head(s) THEN <<x>> \o s
         ELSE <<Head(s)>> \o Insert(x, Tail(s))

RECURSIVE Sorted(_)
Sorted(s) == IF s = <<>> THEN <<>> ELSE Insert(Head(s), Sorted(Tail(s)))

----------------------------------------------------------------------------
\* The two contact files, as hictkpy.File answers hicrepSCC's questions.
\* chromosomes is the ordered list of the keys of the dict f.chromosomes();
\* bins is the bin table, one width (end - start) per bin.

ChrUniverse == {"ALL", "chr1", "chrM"}

ExcludeUniverse == {"chr1", "chrM", "M"}

\* bin_size() of a file whose bins are not uniform (Python's None)
NoBinSize == 0

FBase ==
    [bin_size |-> 10, nbins |-> 4, nchroms |-> 3,
     chromosomes |-> <<"ALL", "chr1", "chrM">>,
     bins |-> <<10, 10, 10, 10>>, sum |-> 4]

\* a file of non-uniform bins: bin_size() is None
FNonUniform == [FBase EXCEPT !.bin_size = NoBinSize, !.bins = <<5, 10, 20, 30>>]

FReordered == [FBase EXCEPT !.chromosomes = <<"chr1", "ALL", "chrM">>]

FOtherBinSize == [FBase EXCEPT !.bin_size = 20]

FOtherNBins == [FBase EXCEPT !.nbins = 5, !.bins = <<10, 10, 10, 10, 10>>]

FOtherNChroms == [FBase EXCEPT !.nchroms = 2, !.chromosomes = <<"chr1", "chrM">>]

FOtherNames == [FBase EXCEPT !.chromosomes = <<"ALL", "chr1", "chr2">>]

FOtherBins == [FNonUniform EXCEPT !.bins = <<5, 10, 20, 40>>]

FirstFiles == {FBase, FNonUniform}

SecondFiles ==
    {FBase, FNonUniform, FReordered, FOtherBinSize, FOtherNBins,
     FOtherNChroms, FOtherNames, FOtherBins}

HValues == {0, 1}

DBPMaxValues == {-25, -1, 5, 25}

\* ==, on two dicts: the same keys, whatever their order
DictEq(a, b) == Range(a) = Range(b) /\ Len(a) = Len(b)

\* int(np.median(widths))
Median(widths) ==
    LET s == Sorted(widths)
        n == Len(s)
    IN  IF n % 2 = 1 THEN s[(n + 1) \div 2]
        ELSE (s[n \div 2] + s[n \div 2 + 1]) \div 2

----------------------------------------------------------------------------
\* Sparse submatrices of one chromosome.  d[k] is the total of the entries
\* at offset k - 1 from the main diagonal (d[1] is the main diagonal); hist
\* lists the transformations applied since the matrix was fetched.

SquareMatrices ==
    UNION {{[rows |-> r, cols |-> r, d |-> d, hist |-> <<>>] :
                d \in [1..r -> 0..MaxCount]} : r \in 1..MaxBins}

NonSquareMatrices ==
    {[rows |-> r, cols |-> r + 1, d |-> [k \in 1..r |-> MaxCount], hist |-> <<>>] :
        r \in 1..(MaxBins - 1)}

\* what getSubCoo(f, chrName) may return
SubMatrices == SquareMatrices \cup NonSquareMatrices

\* m.size > 0: some entry is stored
NonEmpty(m) == \E k \in DOMAIN m.d : m.d[k] > 0

Shape(m) == <<m.rows, m.cols>>

\* m.sum()
Total(m) == SumSeq(m.d)

Did(m, op, arg) == [m EXCEPT !.hist = Append(@, [op |-> op, arg |-> arg])]

\* trimDiags(a, iDiagMax, bKeepMain): keep the offsets below iDiagMax, and
\* the main diagonal only when bKeepMain
trimDiags(a, iDiagMax, bKeepMain) ==
    Did([a EXCEPT !.d = [k \in DOMAIN a.d |->
                            IF (k - 1 < iDiagMax) /\ (bKeepMain \/ k - 1 # 0)
                            THEN a.d[k] ELSE 0]],
        "trimDiags", iDiagMax)

\* resample(m, nTarget).astype(float): every random thinning of m whose
\* total is nTarget, with no entry where m has none
resample(m, nTarget) ==
    {Did(Did([m EXCEPT !.d = d], "resample", nTarget), "astype", 0) :
        d \in {e \in [DOMAIN m.d -> 0..MaxCount] :
                  /\ \A k \in DOMAIN m.d : e[k] <= m.d[k]
                  /\ SumSeq(e) = nTarget}}

\* m.astype(float) / n
divideByTotal(m, n) == Did(Did(m, "astype", 0), "divide", n)

\* meanFilterSparse(m, h)
meanFilterSparse(m, h) == Did(m, "meanFilterSparse", h)

----------------------------------------------------------------------------
\* The decisions of main and hicrepSCC, one operator per line range

\* the default of --excludeChr
DefaultExcludeChr == <<"chrM", "M">>

\* ArgsExclusive comparing the two exclusion lists as sets
ArgsExclusiveAsSets(a) ==
    ~(Range(a.excludeChr) # Range(DefaultExcludeChr) /\ Len(a.chrNames) > 0)

\* main: --chrNames and a non-default --excludeChr are not given together
ArgsExclusive(a) == ~(a.excludeChr # DefaultExcludeChr /\ Len(a.chrNames) > 0)

\* main: the chrNames argument handed to hicrepSCC
ChrNamesArg(a) == IF Len(a.chrNames) > 0 THEN Some(a.chrNames) ELSE Nothing

\* main: the excludeChr argument handed to hicrepSCC
ExcludeChrArg(a) ==
    IF Cardinality(Range(a.excludeChr)) > 0 THEN Some(Range(a.excludeChr))
    ELSE Nothing

\* main: the warning about a repeated --excludeChr name
ExcludeChrRepeats(a) == Cardinality(Range(a.excludeChr)) # Len(a.excludeChr)

\* hicrepSCC: the first of the four file assertions that fails, or None
FileMismatch(a, b) ==
    IF a.bin_size # b.bin_size THEN "different bin sizes"
    ELSE IF a.nbins # b.nbins THEN "different number of bins"
    ELSE IF a.nchroms # b.nchroms THEN "different number of chromosomes"
    ELSE IF ~DictEq(a.chromosomes, b.chromosomes) THEN "different chromosome names"
    ELSE None

\* hicrepSCC: the exclusive upper bound of the diagonal offsets
DMaxOf(dbpmax, binsize, a) ==
    IF dbpmax = -1 THEN Len(a.bins) ELSE (dbpmax \div binsize) + 1

\* DMaxOk off by one
DMaxOkFromOne(dmax) == dmax > 0

\* hicrepSCC: dMax is accepted
DMaxOk(dmax) == dmax > 1

\* hicrepSCC: the keys of chrNamesDict, "ALL" and "All" popped
ChrNamesDictOf(names, a) ==
    LET keys == IF names = Nothing THEN a.chromosomes ELSE FromKeys(The(names))
    IN  SelectInOrder(keys, Range(keys) \ {"ALL", "All"})

\* NoDuplicates with the assertion left out
NoDuplicatesUnchecked(names, dict) == TRUE

\* hicrepSCC: the assertion that chrNames holds no duplicates
NoDuplicates(names, dict) == names = Nothing \/ Len(dict) = Len(The(names))

\* FilterExcluded through a set difference, which loses the order of the dict
FilterExcludedUnordered(dict, excluded) ==
    LET kept == SelectInOrder(dict, Range(dict) \ excluded)
    IN  [i \in DOMAIN kept |-> kept[Len(kept) + 1 - i]]

\* hicrepSCC: the names left by the exclusion filter, in the order of the dict
FilterExcluded(dict, excluded) == SelectInOrder(dict, Range(dict) \ excluded)

\* SubMatrixFault without the comparison of the two shapes
SubMatrixFaultNoShape(a, b) ==
    IF ~NonEmpty(a) THEN "matrix 1 is empty"
    ELSE IF a.rows # a.cols THEN "matrix 1 is not square"
    ELSE IF ~NonEmpty(b) THEN "matrix 2 is empty"
    ELSE IF b.rows # b.cols THEN "matrix 2 is not square"
    ELSE None

\* hicrepSCC: the first assertion on the two fetched submatrices that
\* fails, or None
SubMatrixFault(a, b) ==
    IF ~NonEmpty(a) THEN "matrix 1 is empty"
    ELSE IF a.rows # a.cols THEN "matrix 1 is not square"
    ELSE IF ~NonEmpty(b) THEN "matrix 2 is empty"
    ELSE IF b.rows # b.cols THEN "matrix 2 is not square"
    ELSE IF Shape(a) # Shape(b) THEN "different input shape"
    ELSE None

\* hicrepSCC: the number of diagonals of one chromosome
NDiagsOf(dmax, rows) == IF dmax < 0 THEN rows ELSE Min(dmax, rows)

\* Normalized with the division by the totals done after the downsampling too
NormalizedBoth(a, b, down, n1, n2) ==
    LET sampled ==
            IF ~down THEN {<<a, b>>}
            ELSE IF Total(a) > Total(b) THEN {<<x, b>> : x \in resample(a, Total(b))}
            ELSE IF Total(b) > Total(a) THEN {<<a, y>> : y \in resample(b, Total(a))}
            ELSE {<<a, b>>}
    IN  {<<divideByTotal(p[1], n1), divideByTotal(p[2], n2)>> : p \in sampled}

\* hicrepSCC: the pairs the normalisation step may produce
Normalized(a, b, down, n1, n2) ==
    IF down
    THEN IF Total(a) > Total(b) THEN {<<x, b>> : x \in resample(a, Total(b))}
         ELSE IF Total(b) > Total(a) THEN {<<a, y>> : y \in resample(b, Total(a))}
         ELSE {<<a, b>>}
    ELSE {<<divideByTotal(a, n1), divideByTotal(b, n2)>>}

\* hicrepSCC: the smoothing step
Smoothed(a, b, hh) ==
    IF hh > 0 THEN <<meanFilterSparse(a, hh), meanFilterSparse(b, hh)>>
    ELSE <<a, b>>

\* the value np.full(len(chrNames), -2.0) fills scc with
Unset == "-2.0"

----------------------------------------------------------------------------
\* One invocation

VARIABLES
    pc,           \* the line range about to run
    entry,        \* "cli": main was run; "api": hicrepSCC was called directly
    args,         \* main: the parsed --chrNames and --excludeChr
    warned,       \* main: the duplicate --excludeChr warning was issued
    call,         \* the chrNames and excludeChr hicrepSCC was called with
    f1, f2, h, dBPMax, bDownSample, chrNames, excludeChr,   \* hicrepSCC's parameters
    binSize, dMax, chrNamesDict, scc, iChr, mS1, mS2, m1, m2, nDiags, \* its locals
    ret,          \* what hicrepSCC returned
    fout,         \* the lines np.savetxt wrote
    err,          \* the message of the failed assertion
    vstranMin,    \* sccByDiag: the fewest samples varVstran has a value for
    byDiag        \* sccByDiag: its per-diagonal arrays

vars ==
    <<pc, entry, args, warned, call, f1, f2, h, dBPMax, bDownSample, chrNames,
      excludeChr, binSize, dMax, chrNamesDict, scc, iChr, mS1, mS2, m1, m2,
      nDiags, ret, fout, err, vstranMin, byDiag>>

\* what only a run of sccByDiag on concrete matrices uses
sccVars == <<vstranMin, byDiag>>

params == <<f1, f2, h, dBPMax, bDownSample>>

locals == <<binSize, dMax, chrNamesDict, scc, iChr, mS1, mS2, m1, m2, nDiags>>

Init ==
    /\ pc = "start"
    /\ entry = None /\ args = None /\ warned = FALSE /\ call = Nothing
    /\ f1 = None /\ f2 = None /\ h = None /\ dBPMax = None /\ bDownSample = None
    /\ chrNames = Nothing /\ excludeChr = Nothing
    /\ binSize = None /\ dMax = None /\ chrNamesDict = None /\ scc = None
    /\ iChr = 0 /\ mS1 = None /\ mS2 = None /\ m1 = None /\ m2 = None
    /\ nDiags = None
    /\ ret = Nothing /\ fout = Nothing /\ err = None
    /\ vstranMin = 0 /\ byDiag = None

\* an assertion fails: the exception ends the invocation
Raise(msg) == pc' = "error" /\ err' = msg

\* main, parser.parse_args()
ParseArgs ==
    /\ pc = "start"
    /\ \E cn \in SeqsUpTo(ChrUniverse, MaxNames),
          ex \in SeqsUpTo(ExcludeUniverse, MaxNames) :
          args' = [chrNames |-> cn, excludeChr |-> ex]
    /\ entry' = "cli"
    /\ pc' = "main"
    /\ UNCHANGED <<warned, call, params, chrNames, excludeChr, locals, ret, fout, err>>
    /\ UNCHANGED sccVars

\* main, from the assertion on the arguments to the call of hicrepSCC
Main ==
    /\ pc = "main"
    /\ IF ArgsExclusive(args)
       THEN /\ warned' = ExcludeChrRepeats(args)
            /\ h' \in HValues
            /\ dBPMax' \in DBPMaxValues
            /\ bDownSample' \in BOOLEAN
            /\ f1' \in FirstFiles
            /\ f2' \in SecondFiles
            /\ chrNames' = ChrNamesArg(args)
            /\ excludeChr' = ExcludeChrArg(args)
            /\ call' = Some([chrNames |-> chrNames', excludeChr |-> excludeChr'])
            /\ pc' = "files"
            /\ err' = err
       ELSE /\ Raise("Please use --chrNames OR --excludeChr arguments but not both")
            /\ UNCHANGED <<warned, call, params, chrNames, excludeChr>>
    /\ UNCHANGED <<entry, args, locals, ret, fout>>
    /\ UNCHANGED sccVars

\* a direct call of hicrepSCC
Call ==
    /\ pc = "start"
    /\ entry' = "api"
    /\ h' \in HValues
    /\ dBPMax' \in DBPMaxValues
    /\ bDownSample' \in BOOLEAN
    /\ f1' \in FirstFiles
    /\ f2' \in SecondFiles
    /\ chrNames' \in {Nothing} \cup {Some(cn) : cn \in SeqsUpTo(ChrUniverse, MaxNames)}
    /\ excludeChr' \in {Nothing, Some({"chrM", "M"}), Some({"chr1"})}
    /\ call' = Some([chrNames |-> chrNames', excludeChr |-> excludeChr'])
    /\ pc' = "files"
    /\ UNCHANGED <<args, warned, locals, ret, fout, err>>
    /\ UNCHANGED sccVars

\* hicrepSCC, the four assertions on the two files
CheckFiles ==
    /\ pc = "files"
    /\ IF FileMismatch(f1, f2) = None
       THEN pc' = "binsize" /\ err' = err
       ELSE Raise(FileMismatch(f1, f2))
    /\ UNCHANGED <<entry, args, warned, call, params, chrNames, excludeChr,
                   locals, ret, fout>>
    /\ UNCHANGED sccVars

\* hicrepSCC, binSize and its fallback to the median bin width
BinSize ==
    /\ pc = "binsize"
    /\ IF f1.bin_size # NoBinSize
       THEN binSize' = f1.bin_size /\ pc' = "dmax" /\ err' = err
       ELSE IF f1.bins = f2.bins
            THEN binSize' = Median(f1.bins) /\ pc' = "dmax" /\ err' = err
            ELSE Raise("bins are defined differently") /\ binSize' = f1.bin_size
    /\ UNCHANGED <<entry, args, warned, call, params, chrNames, excludeChr,
                   dMax, chrNamesDict, scc, iChr, mS1, mS2, m1, m2, nDiags,
                   ret, fout>>
    /\ UNCHANGED sccVars

\* hicrepSCC, dMax and the assertion on it
DMax ==
    /\ pc = "dmax"
    /\ dMax' = DMaxOf(dBPMax, binSize, f1)
    /\ IF DMaxOk(dMax')
       THEN pc' = "select" /\ err' = err
       ELSE Raise("Input dBPmax is smaller than binSize")
    /\ UNCHANGED <<entry, args, warned, call, params, chrNames, excludeChr,
                   binSize, chrNamesDict, scc, iChr, mS1, mS2, m1, m2, nDiags,
                   ret, fout>>
    /\ UNCHANGED sccVars

\* hicrepSCC, the selection of the chromosomes
Select ==
    /\ pc = "select"
    /\ chrNamesDict' = ChrNamesDictOf(chrNames, f1)
    /\ IF NoDuplicates(chrNames, chrNamesDict')
       THEN /\ excludeChr' = IF excludeChr = Nothing THEN Some({}) ELSE excludeChr
            /\ chrNames' = Some(FilterExcluded(chrNamesDict', The(excludeChr')))
            /\ scc' = [i \in 1..Len(The(chrNames')) |-> Unset]
            /\ pc' = IF Len(The(chrNames')) > 0 THEN "fetch" ELSE "return"
            /\ err' = err
       ELSE /\ Raise("Found Duplicates")
            /\ UNCHANGED <<chrNames, excludeChr, scc>>
    /\ UNCHANGED <<entry, args, warned, call, params, binSize, dMax, iChr,
                   mS1, mS2, m1, m2, nDiags, ret, fout>>
    /\ UNCHANGED sccVars

\* hicrepSCC, the loop: the next chromosome's two submatrices and the
\* assertions on them
Fetch ==
    /\ pc = "fetch"
    /\ iChr' = iChr + 1
    /\ \E a \in SubMatrices, b \in SubMatrices :
          /\ mS1' = a
          /\ mS2' = IF NonEmpty(a) /\ a.rows = a.cols THEN b ELSE mS2
          /\ IF SubMatrixFault(a, b) = None
             THEN pc' = "trim" /\ err' = err
             ELSE Raise(SubMatrixFault(a, b))
    /\ UNCHANGED <<entry, args, warned, call, params, chrNames, excludeChr,
                   binSize, dMax, chrNamesDict, scc, m1, m2, nDiags, ret, fout>>
    /\ UNCHANGED sccVars

\* hicrepSCC, nDiags and the two trimDiags
Trim ==
    /\ pc = "trim"
    /\ nDiags' = NDiagsOf(dMax, mS1.rows)
    /\ m1' = trimDiags(mS1, nDiags', FALSE)
    /\ m2' = trimDiags(mS2, nDiags', FALSE)
    /\ mS1' = None /\ mS2' = None
    /\ pc' = "normalize"
    /\ UNCHANGED <<entry, args, warned, call, params, chrNames, excludeChr,
                   binSize, dMax, chrNamesDict, scc, iChr, ret, fout, err>>
    /\ UNCHANGED sccVars

\* hicrepSCC, downsampling or division by the file totals
Normalize ==
    /\ pc = "normalize"
    /\ \E p \in Normalized(m1, m2, bDownSample, f1.sum, f2.sum) :
          m1' = p[1] /\ m2' = p[2]
    /\ pc' = "smooth"
    /\ UNCHANGED <<entry, args, warned, call, params, chrNames, excludeChr,
                   binSize, dMax, chrNamesDict, scc, iChr, mS1, mS2, nDiags,
                   ret, fout, err>>
    /\ UNCHANGED sccVars

\* hicrepSCC, the mean filter
Smooth ==
    /\ pc = "smooth"
    /\ m1' = Smoothed(m1, m2, h)[1]
    /\ m2' = Smoothed(m1, m2, h)[2]
    /\ pc' = "score"
    /\ UNCHANGED <<entry, args, warned, call, params, chrNames, excludeChr,
                   binSize, dMax, chrNamesDict, scc, iChr, mS1, mS2, nDiags,
                   ret, fout, err>>
    /\ UNCHANGED sccVars

\* hicrepSCC, scc[iChr] = sccByDiag(m1, m2, nDiags); the score is named
\* after the chromosome whose matrices it was computed from
Score ==
    /\ pc = "score"
    /\ scc' = [scc EXCEPT ![iChr] = The(chrNames)[iChr]]
    /\ m1' = None /\ m2' = None /\ nDiags' = None
    /\ pc' = IF iChr < Len(The(chrNames)) THEN "fetch" ELSE "return"
    /\ UNCHANGED <<entry, args, warned, call, params, chrNames, excludeChr,
                   binSize, dMax, chrNamesDict, iChr, mS1, mS2, ret, fout, err>>
    /\ UNCHANGED sccVars

\* hicrepSCC, return scc
Return ==
    /\ pc = "return"
    /\ ret' = Some(scc)
    /\ pc' = IF entry = "cli" THEN "save" ELSE "done"
    /\ UNCHANGED <<entry, args, warned, call, params, chrNames, excludeChr,
                   locals, fout, err>>
    /\ UNCHANGED sccVars

\* main, np.savetxt(fout, scc)
SaveTxt ==
    /\ pc = "save"
    /\ fout' = ret
    /\ pc' = "done"
    /\ UNCHANGED <<entry, args, warned, call, params, chrNames, excludeChr,
                   locals, ret, err>>
    /\ UNCHANGED sccVars

Next ==
    \/ ParseArgs \/ Main \/ Call
    \/ CheckFiles \/ BinSize \/ DMax \/ Select
    \/ Fetch \/ Trim \/ Normalize \/ Smooth \/ Score
    \/ Return \/ SaveTxt

Spec == Init /\ [][Next]_vars

----------------------------------------------------------------------------
\* Vocabulary of the properties of one invocation

HasDuplicates(s) == \E i, j \in DOMAIN s : i # j /\ s[i] = s[j]

\* s holds names of t only, each once, in the order they have in t
OrderedAs(s, t) ==
    /\ ~HasDuplicates(s)
    /\ Range(s) \subseteq Range(t)
    /\ \A i, j \in DOMAIN s : i < j =>
          \E a, b \in DOMAIN t : a < b /\ t[a] = s[i] /\ t[b] = s[j]

\* hicrepSCC has been entered
Called == call # Nothing

\* the inclusion list hicrepSCC was called with, if any
InclusionGiven == Called /\ The(call).chrNames # Nothing

Inclusion == The(The(call).chrNames)

\* the exclusion set hicrepSCC was called with, if any
ExclusionGiven == Called /\ The(call).excludeChr # Nothing

Exclusion == IF ExclusionGiven THEN The(The(call).excludeChr) ELSE {}

\* hicrepSCC returned a score vector
Returned == ret # Nothing

\* the chromosomes the returned scores were computed from, in score order
Scored == The(ret)

InLoopBody == pc \in {"trim", "normalize", "smooth", "score"}

----------------------------------------------------------------------------
C2_AsStated == InclusionGiven /\ ExclusionGiven => ~Returned

\* C2 (amended): a command line that gives --chrNames together with an
\* --excludeChr other than the default [chrM, M] fails in main: hicrepSCC
\* is never called, nothing is returned and no file is written.
C2_CliExclusive ==
    entry = "cli" /\ Len(args.chrNames) > 0 /\ args.excludeChr # <<"chrM", "M">>
        => /\ ~Called /\ ~Returned /\ fout = Nothing
           /\ pc \in {"main", "error"}

\* main has refused --chrNames chr1 --excludeChr chr1
C2_Witness ==
    /\ pc = "error" /\ entry = "cli" /\ ~Called
    /\ args.chrNames = <<"chr1">> /\ args.excludeChr = <<"chr1">>

\* C3 (as stated): a name repeated in the inclusion list or in the exclusion
\* list makes the invocation fail before any chromosome is processed, with
\* no scores and no output file.
C3_AsStated ==
    \/ (InclusionGiven /\ HasDuplicates(Inclusion))
    \/ (entry = "cli" /\ HasDuplicates(args.excludeChr))
    => iChr = 0 /\ ~Returned /\ fout = Nothing

\* C3 (amended): a name repeated in the inclusion list makes hicrepSCC fail
\* before any chromosome is processed, with no scores and no output file; a
\* name repeated in --excludeChr only draws a warning.
C3_DuplicateInclusion ==
    /\ InclusionGiven /\ HasDuplicates(Inclusion)
          => /\ iChr = 0 /\ ~Returned /\ fout = Nothing
             /\ pc \in {"files", "binsize", "dmax", "select", "error"}
    /\ entry = "cli" /\ Called => (warned <=> HasDuplicates(args.excludeChr))

\* the duplicate assertion has fired on a list that repeats a name
C3_Witness ==
    /\ pc = "error" /\ err = "Found Duplicates"
    /\ InclusionGiven /\ Inclusion = <<"chr1", "chr1">>

\* C4 (as stated): the cutoff nDiags handed to trimDiags and sccByDiag is
\* greater than 1 for every chromosome.
C4_AsStated == InLoopBody /\ pc # "trim" => nDiags > 1

\* C4 (amended): dMax is greater than 1 before any submatrix is fetched, a
\* dMax of 1 or less fails the call with no submatrix fetched, and the
\* nDiags of a chromosome is the smaller of dMax and its number of bins: at
\* least 1, and greater than 1 exactly when the chromosome has more than one
\* bin.
C4_Cutoff ==
    /\ iChr > 0 \/ pc \in {"select", "fetch", "return", "save", "done"} => dMax > 1
    /\ err = "Input dBPmax is smaller than binSize" => iChr = 0 /\ mS1 = None
    /\ InLoopBody /\ pc # "trim" =>
          /\ nDiags = Min(dMax, m1.rows)
          /\ nDiags >= 1
          /\ (nDiags > 1 <=> m1.rows > 1)
          /\ m1.hist[1] = [op |-> "trimDiags", arg |-> nDiags]
          /\ m2.hist[1] = [op |-> "trimDiags", arg |-> nDiags]

\* a chromosome of one bin is about to be scored with nDiags = 1
C4_Witness == pc = "score" /\ nDiags = 1 /\ m1.rows = 1 /\ dMax = 3

\* C8: a failed validation returns no scores and writes no file, also after
\* earlier chromosomes were scored; the loop body runs only on two non-empty
\* square submatrices of one shape, from two files that agree; the file is
\* written only when every selected chromosome has its score.
C8_FailFast ==
    /\ pc = "error" <=> err # None
    /\ pc = "error" => ~Returned /\ fout = Nothing
    /\ pc \notin {"start", "main", "files", "error"} =>
          /\ f1.bin_size = f2.bin_size /\ f1.nbins = f2.nbins
          /\ f1.nchroms = f2.nchroms
          /\ Range(f1.chromosomes) = Range(f2.chromosomes)
    /\ pc = "trim" =>
          /\ NonEmpty(mS1) /\ NonEmpty(mS2)
          /\ mS1.rows = mS1.cols /\ mS2.rows = mS2.cols
          /\ mS1.rows = mS2.rows
    /\ fout # Nothing =>
          /\ Len(The(fout)) = Len(The(chrNames))
          /\ \A i \in DOMAIN The(fout) : The(fout)[i] # Unset
    /\ Returned =>
          /\ Len(Scored) = Len(The(chrNames))
          /\ \A i \in DOMAIN Scored : Scored[i] # Unset

\* the second chromosome's submatrices differ in shape after the first
\* chromosome was scored: its score is dropped with the rest
C8_Witness ==
    /\ pc = "error" /\ err = "different input shape"
    /\ iChr = 2 /\ scc[1] # Unset /\ ~Returned /\ fout = Nothing

----------------------------------------------------------------------------
\* The names of the transformations applied to m, in order
OpsOf(m) == [i \in DOMAIN m.hist |-> m.hist[i].op]

\* the history the smoothing step adds
SmoothOps == IF h > 0 THEN <<[op |-> "meanFilterSparse", arg |-> h]>> ELSE <<>>

\* C9, the state part: trimDiags comes first, the normalisation second and
\* the mean filter last, the mean filter being there exactly when h > 0;
\* with bDownSample at most one matrix is resampled and none is divided,
\* without it both are divided by their file's total and none is resampled.
C9_Order ==
    /\ pc = "normalize" =>
          /\ OpsOf(m1) = <<"trimDiags">> /\ OpsOf(m2) = <<"trimDiags">>
          /\ m1.hist[1].arg = nDiags /\ m2.hist[1].arg = nDiags
    /\ pc = "score" =>
          LET Tail1 == SubSeq(OpsOf(m1), 2, Len(m1.hist))
              Tail2 == SubSeq(OpsOf(m2), 2, Len(m2.hist))
              Sm == OpsOf([hist |-> SmoothOps])
          IN  /\ m1.hist[1] = [op |-> "trimDiags", arg |-> nDiags]
              /\ m2.hist[1] = [op |-> "trimDiags", arg |-> nDiags]
              /\ IF bDownSample
                 THEN <<Tail1, Tail2>> \in
                         {<<Sm, Sm>>,
                          <<<<"resample", "astype">> \o Sm, Sm>>,
                          <<Sm, <<"resample", "astype">> \o Sm>>}
                 ELSE /\ Tail1 = <<"astype", "divide">> \o Sm
                      /\ Tail2 = <<"astype", "divide">> \o Sm
                      /\ m1.hist[3].arg = f1.sum /\ m2.hist[3].arg = f2.sum

\* C9, the normalisation step: with bDownSample the matrix of the strictly
\* larger band total is thinned to the other's band total and the other is
\* left as it is, and both are left when the totals are equal; without
\* bDownSample the entries keep their places and each matrix is divided by
\* its own file's total.
C9_NormalizeStep ==
    pc = "normalize" =>
        IF bDownSample
        THEN /\ Total(m1) > Total(m2) =>
                   /\ m2' = m2 /\ Total(m1') = Total(m2)
                   /\ \A k \in DOMAIN m1.d : m1'.d[k] <= m1.d[k]
                   /\ m1'.hist = m1.hist \o <<[op |-> "resample", arg |-> Total(m2)],
                                              [op |-> "astype", arg |-> 0]>>
             /\ Total(m2) > Total(m1) =>
                   /\ m1' = m1 /\ Total(m2') = Total(m1)
                   /\ \A k \in DOMAIN m2.d : m2'.d[k] <= m2.d[k]
                   /\ m2'.hist = m2.hist \o <<[op |-> "resample", arg |-> Total(m1)],
                                              [op |-> "astype", arg |-> 0]>>
             /\ Total(m1) = Total(m2) => m1' = m1 /\ m2' = m2
        ELSE /\ m1'.d = m1.d /\ m2'.d = m2.d
             /\ m1'.hist = m1.hist \o <<[op |-> "astype", arg |-> 0],
                                        [op |-> "divide", arg |-> f1.sum]>>
             /\ m2'.hist = m2.hist \o <<[op |-> "astype", arg |-> 0],
                                        [op |-> "divide", arg |-> f2.sum]>>

\* C9, the smoothing step: both matrices are filtered when h > 0, and none
\* is touched otherwise.
C9_SmoothStep ==
    pc = "smooth" =>
        /\ m1' = [m1 EXCEPT !.hist = @ \o SmoothOps]
        /\ m2' = [m2 EXCEPT !.hist = @ \o SmoothOps]

C10_OnlyOnDuplicates == err = "Found Duplicates" => HasDuplicates(Inclusion)

----------------------------------------------------------------------------
\* sccByDiag on concrete matrices, in exact arithmetic.
\*
\* A matrix is [n |-> number of bins, v |-> the stored value of each cell
\* <<row, col>> of the upper triangle, rows and columns counted from 0].
\* A float is {"nan"}, {"inf"} or a number: a correlation is kept in units of
\* 1 / RhoScale (rounded towards zero), a weight in units of 1 / 12.

\* Bounds of the inputs of sccByDiag
NBins == 4
MaxVal == 2
MaxNnz == 4
\* the fixed-point precision of a correlation
RhoScale == 100

Cells(n) == {c \in (0..(n - 1)) \X (0..(n - 1)) : c[1] <= c[2]}

Nnz(m) == Cardinality({c \in DOMAIN m.v : m.v[c] # 0})

\* the small inputs: at most MaxNnz stored entries, of the main diagonal
\* only the first cell
SmallMatrices(n) ==
    {m \in [n : {n}, v : [Cells(n) -> 0..MaxVal]] :
        /\ Nnz(m) <= MaxNnz
        /\ \A i \in 1..(n - 1) : m.v[<<i, i>>] = 0}

ZeroLike(m) == [m EXCEPT !.v = [c \in DOMAIN m.v |-> 0]]

Doubled(m) == [m EXCEPT !.v = [c \in DOMAIN m.v |-> 2 * m.v[c]]]

\* every diagonal of m read from its other end
Mirrored(m) ==
    [m EXCEPT !.v = [c \in DOMAIN m.v |-> m.v[<<m.n - 1 - c[2], m.n - 1 - c[1]>>]]]

\* the pairs of matrices sccByDiag is applied to
SmallPairs(n) ==
    UNION {{<<m, m>>, <<m, ZeroLike(m)>>, <<ZeroLike(m), m>>, <<m, Doubled(m)>>,
            <<m, Mirrored(m)>>} : m \in SmallMatrices(n)}

\* the 10-bin matrix that holds 1 at every cell of the offsets 1..4
Ones10 ==
    [n |-> 10,
     v |-> [c \in Cells(10) |-> IF c[2] - c[1] \in 1..4 THEN 1 ELSE 0]]

\* upperDiagCsr(m, nDiags): row k holds the diagonal of offset k, k in
\* 1..nDiags-1, the entry <<i, i+k>> in column i
upperDiagCsr(m, nd) ==
    [k \in 1..(nd - 1) |->
        [i \in 0..(m.n - 1) |-> IF i + k <= m.n - 1 THEN m.v[<<i, i + k>>] ELSE 0]]

RECURSIVE SumOver(_, _)
\* the sum of f over the finite set S
SumOver(f, S) ==
    IF S = {} THEN 0
    ELSE LET x == CHOOSE y \in S : TRUE IN f[x] + SumOver(f, S \ {x})

RECURSIVE ISqrtIn(_, _, _)
\* the largest r in lo..hi with r * r <= x
ISqrtIn(x, lo, hi) ==
    IF lo >= hi THEN lo
    ELSE LET mid == (lo + hi + 1) \div 2
         IN  IF mid * mid <= x THEN ISqrtIn(x, mid, hi) ELSE ISqrtIn(x, lo, mid - 1)

NaN == [kind |-> "nan", num |-> 0]

Inf == [kind |-> "inf", num |-> 0]

Num(x) == [kind |-> "num", num |-> x]

\* np.nan_to_num(x, posinf=0.0, neginf=0.0) on one element
nan_to_num(x) == IF x.kind = "num" THEN x.num ELSE 0

\* varVstran(n), times 12: the variance of the ranks of n samples,
\* (1 + 1/n) / 12, and nan below vmin samples; times n it is the weight
\* wsD = nSamplesD * varVstran(nSamplesD)
WeightOf(n, vmin) == IF n < vmin THEN NaN ELSE Num(n + 1)

\* one element of rhoD, from the sufficient statistics of one diagonal:
\* cov / sqrt(varA * varB) with every term multiplied by n
RhoOf(n, sa, sb, sab, saa, sbb) ==
    LET ncov == n * sab - sa * sb
        nva == n * saa - sa * sa
        nvb == n * sbb - sb * sb
        den == nva * nvb
        mag == ISqrtIn((ncov * ncov * RhoScale * RhoScale) \div den, 0, RhoScale + 1)
    IN  IF n = 0 \/ den < 0 THEN NaN
        ELSE IF den = 0 THEN (IF ncov = 0 THEN NaN ELSE Inf)
        ELSE Num(IF ncov < 0 THEN 0 - mag ELSE mag)

\* the arrays and the result of sccByDiag(a, b, nd)
sccByDiag(a, b, nd, vmin) ==
    LET aD == upperDiagCsr(a, nd)
        bD == upperDiagCsr(b, nd)
        K == DOMAIN aD
        I == 0..(a.n - 1)
        nS == [k \in K |-> Cardinality({i \in I : aD[k][i] + bD[k][i] # 0})]
        sa == [k \in K |-> SumOver(aD[k], I)]
        sb == [k \in K |-> SumOver(bD[k], I)]
        sab == [k \in K |-> SumOver([i \in I |-> aD[k][i] * bD[k][i]], I)]
        saa == [k \in K |-> SumOver([i \in I |-> aD[k][i] * aD[k][i]], I)]
        sbb == [k \in K |-> SumOver([i \in I |-> bD[k][i] * bD[k][i]], I)]
        rho == [k \in K |-> RhoOf(nS[k], sa[k], sb[k], sab[k], saa[k], sbb[k])]
        ws == [k \in K |-> WeightOf(nS[k], vmin)]
        ws0 == [k \in K |-> nan_to_num(ws[k])]
        rho0 == [k \in K |-> nan_to_num(rho[k])]
        dot == SumOver([k \in K |-> rho0[k] * ws0[k]], K)
        tot == SumOver(ws0, K)
    IN  [nSamplesD |-> nS, rhoD |-> rho, wsD |-> ws,
         rhoNan2Zero |-> rho0, wsNan2Zero |-> ws0,
         \* rhoNan2Zero @ wsNan2Zero / wsNan2Zero.sum(): the fraction
         \* num / (RhoScale * den), or nan for 0 / 0
         scc |-> IF tot = 0 THEN [kind |-> IF dot = 0 THEN "nan" ELSE "inf",
                                  num |-> 0, den |-> 0]
                 ELSE [kind |-> "num", num |-> dot, den |-> tot]]

----------------------------------------------------------------------------
\* One application of sccByDiag.  m1, m2 and nDiags are its parameters, ret
\* is what it returns; the names hicrepSCC alone uses stay as Init of the
\* driver leaves them.

DriverIdle ==
    /\ entry = None /\ args = None /\ warned = FALSE /\ call = Nothing
    /\ f1 = None /\ f2 = None /\ h = None /\ dBPMax = None /\ bDownSample = None
    /\ chrNames = Nothing /\ excludeChr = Nothing
    /\ binSize = None /\ dMax = None /\ chrNamesDict = None /\ scc = None
    /\ iChr = 0 /\ mS1 = None /\ mS2 = None
    /\ fout = Nothing /\ err = None

InitScc ==
    /\ DriverIdle
    /\ pc = "sccByDiag"
    /\ \E p \in SmallPairs(NBins) \cup {<<Ones10, Ones10>>} : m1 = p[1] /\ m2 = p[2]
    /\ nDiags \in 1..m1.n
    /\ vstranMin \in 1..3
    /\ byDiag = None
    /\ ret = Nothing

\* sccByDiag(m1, m2, nDiags)
SccByDiag ==
    /\ pc = "sccByDiag"
    /\ LET r == sccByDiag(m1, m2, nDiags, vstranMin)
       IN  /\ byDiag' = [nSamplesD |-> r.nSamplesD, rhoD |-> r.rhoD, wsD |-> r.wsD,
                         rhoNan2Zero |-> r.rhoNan2Zero, wsNan2Zero |-> r.wsNan2Zero]
           /\ ret' = Some(r.scc)
    /\ pc' = "returned"
    /\ UNCHANGED <<entry, args, warned, call, params, chrNames, excludeChr,
                   binSize, dMax, chrNamesDict, scc, iChr, mS1, mS2, m1, m2,
                   nDiags, fout, err, vstranMin>>

NextScc == SccByDiag

SpecScc == InitScc /\ [][NextScc]_vars

----------------------------------------------------------------------------
\* Vocabulary of the properties of sccByDiag

\* the diagonals sccByDiag looked at
Diagonals == DOMAIN byDiag.rhoD

\* the correlation or the weight of diagonal k is nan or inf
Degenerate(k) == byDiag.rhoD[k].kind # "num" \/ byDiag.wsD[k].kind # "num"

\* the float x, a fraction num / (RhoScale * den), is 1.0
IsOne(x) == x.kind = "num" /\ x.num = RhoScale * x.den

AllZero(m) == \A c \in DOMAIN m.v : m.v[c] = 0

\* m has an entry at one of the offsets 1..nd-1
BandNonZero(m, nd) ==
    \E c \in DOMAIN m.v : c[2] - c[1] \in 1..(nd - 1) /\ m.v[c] # 0

\* C5: for identical matrices every correlation that is defined is 1.0, the
\* SCC returned is 1.0 (as soon as one diagonal is not degenerate), and the
\* SCC of the 10-bin matrix of ones at the offsets 1..4 is 1.0.
C5_IdenticalIsOne ==
    pc = "returned" /\ m1 = m2 =>
        /\ \A k \in Diagonals :
              byDiag.rhoD[k].kind = "num" => byDiag.rhoD[k].num = RhoScale
        /\ (\E k \in Diagonals : ~Degenerate(k)) => IsOne(The(ret))
        /\ m1 = Ones10 /\ nDiags = 5 => IsOne(The(ret))

\* C6: with one matrix all zero and the other not zero in the band, every
\* correlation is undefined and replaced by 0, the weights sum to 0 and the
\* SCC returned is nan.
C6_ZeroIsNaN ==
    /\ pc = "returned"
    /\ \/ AllZero(m1) /\ BandNonZero(m2, nDiags)
       \/ AllZero(m2) /\ BandNonZero(m1, nDiags)
    => /\ \A k \in Diagonals :
             byDiag.rhoD[k].kind # "num" /\ byDiag.rhoNan2Zero[k] = 0
       /\ SumOver(byDiag.wsNan2Zero, Diagonals) = 0
       /\ The(ret).kind = "nan"

\* C7: a degenerate diagonal adds 0 to the sum of the products and 0 to the
\* sum of the weights, so that the SCC returned is the weighted average of
\* the diagonals that are not degenerate.
C7_DegenerateAddsNothing ==
    pc = "returned" =>
        LET Ok == {k \in Diagonals : ~Degenerate(k)}
            dot == SumOver([k \in Diagonals |->
                               byDiag.rhoD[k].num * byDiag.wsD[k].num], Ok)
            tot == SumOver([k \in Diagonals |-> byDiag.wsD[k].num], Ok)
        IN  /\ \A k \in Diagonals : Degenerate(k) =>
                  /\ byDiag.rhoNan2Zero[k] * byDiag.wsNan2Zero[k] = 0
                  /\ byDiag.wsNan2Zero[k] = 0
            /\ IF tot = 0 THEN The(ret).kind = "nan"
               ELSE /\ The(ret).kind = "num"
                    /\ The(ret).num * tot = dot * The(ret).den

====
